---- MODULE Spec2Model ----
(***************************************************************************)
(* The boolean/binary sub-solver of the partial witness generator          *)
(* (crates/acvm/src/pwg/binary.rs) together with the arithmetic evaluator  *)
(* it calls and the fixed-point loop that drives it.                       *)
(***************************************************************************)
EXTENDS Integers, Sequences, FiniteSets, TLC

\* ------------------------------------------------------------------ bounds
\* The prime of the field.  The program uses the 254-bit prime of its curve;
\* the model keeps the arithmetic and shrinks the prime.
Modulus == 5
\* Witness indices 1..NumWitness (index 0 is reserved by the proof system).
NumWitness == 3
\* How many leading witnesses the caller may pre-assign (the ABI inputs).
MaxInputs == 1
\* Length of the circuits the fixed-point loop is run on.
MaxGates == 3
\* Number of calls made on one BinarySolver in a run of the model.
MaxCalls == 4
\* Parameters of main besides its return value.
MaxParams == 2
\* Length of the arrays and number of the fields of the structs passed in.
MaxLen == 2

\* ------------------------------------------------------------------ field
FieldElement == 0 .. (Modulus - 1)
Witness == 1 .. NumWitness

FAdd(a, b) == (a + b) % Modulus
FMul(a, b) == (a * b) % Modulus
FNeg(a) == (Modulus - a) % Modulus
FOne == 1 % Modulus
\* BigUint::from_bytes_be(&c.to_bytes()): the canonical representative of c
\* as an unbounded natural number.
ToBigUint(c) == c % Modulus

\* ------------------------------------------------------------------ maps
\* A BTreeMap / HashMap is a function whose domain is the set of its keys.
EmptyMap == [w \in {} |-> 0]
Insert(m, k, v) == [x \in (DOMAIN m) \cup {k} |-> IF x = k THEN v ELSE m[x]]
ContainsKey(m, k) == k \in DOMAIN m

\* ------------------------------------------------------------------ gates
Expression(mul, lin, q) ==
    [kind |-> "Arithmetic", mul_terms |-> mul, linear_combinations |-> lin, q_c |-> q]
InvertGate(x, r) == [kind |-> "Invert", x |-> x, result |-> r]
OtherGate == [kind |-> "Other"]

Resolved == "Resolved"
Skip == "Skip"
UnsatisfiedConstrain == "UnsatisfiedConstrain"
UnsupportedOpcode == "UnsupportedOpcode"

\* The gates of one expression's terms.
MulWitnesses(e) ==
    UNION {{e.mul_terms[i][2], e.mul_terms[i][3]} : i \in DOMAIN e.mul_terms}
LinWitnesses(e) ==
    {e.linear_combinations[i][2] : i \in DOMAIN e.linear_combinations}
ExprWitnesses(e) == MulWitnesses(e) \cup LinWitnesses(e)

\* ------------------------------------------------------------------ evaluator
\* ArithmeticSolver::evaluate: substitute the known witnesses and fold.
\* acc is the residual built so far, i the next quadratic term.
RECURSIVE EvalMulTerms(_, _, _, _)
EvalMulTerms(e, wm, i, acc) ==
    IF i > Len(e.mul_terms) THEN acc
    ELSE LET c  == e.mul_terms[i][1]
             w1 == e.mul_terms[i][2]
             w2 == e.mul_terms[i][3]
             k1 == ContainsKey(wm, w1)
             k2 == ContainsKey(wm, w2)
             next ==
               IF k1 /\ k2
                 THEN [acc EXCEPT !.q_c = FAdd(@, FMul(c, FMul(wm[w1], wm[w2])))]
               ELSE IF k1
                 THEN IF FMul(wm[w1], c) # 0
                        THEN [acc EXCEPT !.linear_combinations =
                                 Append(@, <<FMul(wm[w1], c), w2>>)]
                        ELSE acc
               ELSE IF k2
                 THEN IF FMul(c, wm[w2]) # 0
                        THEN [acc EXCEPT !.linear_combinations =
                                 Append(@, <<FMul(c, wm[w2]), w1>>)]
                        ELSE acc
               ELSE IF c # 0
                 THEN [acc EXCEPT !.mul_terms = Append(@, <<c, w1, w2>>)]
                 ELSE acc
         IN EvalMulTerms(e, wm, i + 1, next)

RECURSIVE EvalLinTerms(_, _, _, _)
EvalLinTerms(e, wm, i, acc) ==
    IF i > Len(e.linear_combinations) THEN acc
    ELSE LET c == e.linear_combinations[i][1]
             w == e.linear_combinations[i][2]
             next ==
               IF ContainsKey(wm, w)
                 THEN [acc EXCEPT !.q_c = FAdd(@, FMul(c, wm[w]))]
               ELSE IF c # 0
                 THEN [acc EXCEPT !.linear_combinations = Append(@, <<c, w>>)]
                 ELSE acc
         IN EvalLinTerms(e, wm, i + 1, next)

evaluate(e, wm) ==
    LET r1 == EvalMulTerms(e, wm, 1, Expression(<<>>, <<>>, 0))
        r2 == EvalLinTerms(e, wm, 1, r1)
    IN [r2 EXCEPT !.q_c = FAdd(@, e.q_c)]

\* ------------------------------------------------------------------ queries
\* The fact store is passed as a record bs = [binary_witness, invert_witness,
\* positive_witness].
\* is_boolean that finds no witness in the set.
is_boolean_never(bs, w) == FALSE

is_boolean(bs, w) == w \in bs.binary_witness

\* are_inverse with the map looked up from the first witness only.
are_inverse_forward(bs, w1, w2) ==
    ContainsKey(bs.invert_witness, w1) /\ bs.invert_witness[w1] = w2

are_inverse(bs, w1, w2) ==
    \/ (ContainsKey(bs.invert_witness, w1) /\ bs.invert_witness[w1] = w2)
    \/ (ContainsKey(bs.invert_witness, w2) /\ bs.invert_witness[w2] = w1)

\* are_boolean satisfied by one boolean witness of the two.
are_boolean_either(bs, w1, w2) ==
    are_inverse(bs, w1, w2) \/ is_boolean(bs, w1) \/ is_boolean(bs, w2)

are_boolean(bs, w1, w2) ==
    are_inverse(bs, w1, w2) \/ (is_boolean(bs, w1) /\ is_boolean(bs, w2))

\* get_max_value without the boolean case.
get_max_value_recorded_only(bs, w) ==
    IF ContainsKey(bs.positive_witness, w) THEN {bs.positive_witness[w]}
    ELSE {}

\* get_max_value with the recorded bound looked up before the boolean set.
get_max_value_bound_first(bs, w) ==
    IF ContainsKey(bs.positive_witness, w) THEN {bs.positive_witness[w]}
    ELSE IF is_boolean(bs, w) THEN {1}
    ELSE {}

\* get_max_value with 0 as the max value of a boolean.
get_max_value_zero(bs, w) ==
    IF is_boolean(bs, w) THEN {0}
    ELSE IF ContainsKey(bs.positive_witness, w) THEN {bs.positive_witness[w]}
    ELSE {}

\* Option<BigUint> as a set: {} is None, {v} is Some(v).
get_max_value(bs, w) ==
    IF is_boolean(bs, w) THEN {1}
    ELSE IF ContainsKey(bs.positive_witness, w) THEN {bs.positive_witness[w]}
    ELSE {}

Unwrap(opt) == CHOOSE v \in opt : TRUE

\* ------------------------------------------------------------------ solving
\* is_binary: the maximum of the expression when it uses only booleans and
\* bounded witnesses, None otherwise.
\* The loop of is_binary over the quadratic terms with their coefficients
\* left out of the bound.
RECURSIVE IsBinaryMulUncounted(_, _, _, _)
IsBinaryMulUncounted(bs, e, i, max) ==
    IF i > Len(e.mul_terms) THEN {max}
    ELSE IF ~are_boolean(bs, e.mul_terms[i][2], e.mul_terms[i][3]) THEN {}
    ELSE IsBinaryMulUncounted(bs, e, i + 1, max)

RECURSIVE IsBinaryMul(_, _, _, _)
IsBinaryMul(bs, e, i, max) ==
    IF i > Len(e.mul_terms) THEN {max}
    ELSE IF ~are_boolean(bs, e.mul_terms[i][2], e.mul_terms[i][3]) THEN {}
    ELSE IsBinaryMul(bs, e, i + 1, max + ToBigUint(e.mul_terms[i][1]))

\* The loop of is_binary over the linear terms with a witness of unknown max
\* value counted as 0.
RECURSIVE IsBinaryLinUnknownAsZero(_, _, _, _)
IsBinaryLinUnknownAsZero(bs, e, i, max) ==
    IF i > Len(e.linear_combinations) THEN {max}
    ELSE LET v == get_max_value(bs, e.linear_combinations[i][2])
         IN IsBinaryLinUnknownAsZero(bs, e, i + 1,
                max + ToBigUint(e.linear_combinations[i][1])
                        * (IF v = {} THEN 0 ELSE Unwrap(v)))

RECURSIVE IsBinaryLin(_, _, _, _)
IsBinaryLin(bs, e, i, max) ==
    IF i > Len(e.linear_combinations) THEN {max}
    ELSE LET v == get_max_value(bs, e.linear_combinations[i][2])
         IN IF v = {} THEN {}
            ELSE IsBinaryLin(bs, e, i + 1,
                     max + ToBigUint(e.linear_combinations[i][1]) * Unwrap(v))

is_binary(bs, e) ==
    LET m1 == IsBinaryMul(bs, e, 1, 0)
    IN IF m1 = {} THEN {}
       ELSE LET m2 == IsBinaryLin(bs, e, 1, Unwrap(m1))
            IN IF m2 = {} THEN {}
               ELSE IF Unwrap(m2) > Modulus THEN {}
               ELSE {Unwrap(m2) + ToBigUint(e.q_c)}

\* solve_inverse with every nonzero constant taken as a violation.
solve_inverse_zero_only(bs, e, wm) ==
    IF /\ Len(e.mul_terms) = 1
       /\ are_inverse(bs, e.mul_terms[1][2], e.mul_terms[1][3])
       /\ e.linear_combinations = <<>>
      THEN IF e.q_c = 0
             THEN [result |-> Resolved,
                   wm |-> Insert(Insert(wm, e.mul_terms[1][2], 0), e.mul_terms[1][3], 0)]
           ELSE [result |-> UnsatisfiedConstrain, wm |-> wm]
      ELSE [result |-> Skip, wm |-> wm]

\* solve_inverse, solve_booleans: [result, wm] is the outcome and the witness
\* map after the call.
solve_inverse(bs, e, wm) ==
    IF /\ Len(e.mul_terms) = 1
       /\ are_inverse(bs, e.mul_terms[1][2], e.mul_terms[1][3])
       /\ e.linear_combinations = <<>>
      THEN IF e.q_c = 0
             THEN [result |-> Resolved,
                   wm |-> Insert(Insert(wm, e.mul_terms[1][2], 0), e.mul_terms[1][3], 0)]
           ELSE IF e.q_c # FOne
             THEN [result |-> UnsatisfiedConstrain, wm |-> wm]
           ELSE [result |-> Skip, wm |-> wm]
      ELSE [result |-> Skip, wm |-> wm]

RECURSIVE ZeroLinear(_, _, _)
ZeroLinear(e, i, wm) ==
    IF i > Len(e.linear_combinations) THEN wm
    ELSE ZeroLinear(e, i + 1, Insert(wm, e.linear_combinations[i][2], 0))

\* solve_booleans with the constant counted twice in the comparison.
solve_booleans_double_constant(bs, wm, e) ==
    LET inv == solve_inverse(bs, e, wm)
        max == is_binary(bs, e)
    IN IF inv.result = UnsatisfiedConstrain THEN inv
       ELSE IF inv.result = Resolved THEN inv
       ELSE IF max # {}
         THEN IF Unwrap(max) + ToBigUint(e.q_c) < Modulus
                THEN IF e.q_c = 0
                       THEN [result |-> Resolved, wm |-> ZeroLinear(e, 1, inv.wm)]
                       ELSE [result |-> UnsatisfiedConstrain, wm |-> inv.wm]
                ELSE [result |-> Skip, wm |-> inv.wm]
       ELSE [result |-> Skip, wm |-> inv.wm]

\* solve_booleans with a bound equal to the modulus accepted.
solve_booleans_inclusive(bs, wm, e) ==
    LET inv == solve_inverse(bs, e, wm)
        max == is_binary(bs, e)
    IN IF inv.result = UnsatisfiedConstrain THEN inv
       ELSE IF inv.result = Resolved THEN inv
       ELSE IF max # {}
         THEN IF Unwrap(max) <= Modulus
                THEN IF e.q_c = 0
                       THEN [result |-> Resolved, wm |-> ZeroLinear(e, 1, inv.wm)]
                       ELSE [result |-> UnsatisfiedConstrain, wm |-> inv.wm]
                ELSE [result |-> Skip, wm |-> inv.wm]
       ELSE [result |-> Skip, wm |-> inv.wm]

\* solve_booleans writing the zeros before it looks at the constant.
solve_booleans_eager(bs, wm, e) ==
    LET inv == solve_inverse(bs, e, wm)
        max == is_binary(bs, e)
    IN IF inv.result = UnsatisfiedConstrain THEN inv
       ELSE IF inv.result = Resolved THEN inv
       ELSE IF max # {}
         THEN IF Unwrap(max) < Modulus
                THEN IF e.q_c = 0
                       THEN [result |-> Resolved, wm |-> ZeroLinear(e, 1, inv.wm)]
                       ELSE [result |-> UnsatisfiedConstrain,
                             wm |-> ZeroLinear(e, 1, inv.wm)]
                ELSE [result |-> Skip, wm |-> inv.wm]
       ELSE [result |-> Skip, wm |-> inv.wm]

solve_booleans(bs, wm, e) ==
    LET inv == solve_inverse(bs, e, wm)
        max == is_binary(bs, e)
    IN IF inv.result = UnsatisfiedConstrain THEN inv
       ELSE IF inv.result = Resolved THEN inv
       ELSE IF max # {}
         THEN IF Unwrap(max) < Modulus
                THEN IF e.q_c = 0
                       THEN [result |-> Resolved, wm |-> ZeroLinear(e, 1, inv.wm)]
                       ELSE [result |-> UnsatisfiedConstrain, wm |-> inv.wm]
                ELSE [result |-> Skip, wm |-> inv.wm]
       ELSE [result |-> Skip, wm |-> inv.wm]

\* ------------------------------------------------------------------ detection
\* The loop of identify_booleans over an expression without quadratic term
\* and more than two linear terms: st = [max, x, stop], x an Option<usize>.
RECURSIVE BoundLoop(_, _, _, _)
BoundLoop(bs, e, i, st) ==
    IF i > Len(e.linear_combinations) \/ st.stop THEN st
    ELSE LET v == get_max_value(bs, e.linear_combinations[i][2])
             next ==
               IF v # {}
                 THEN [st EXCEPT !.max = @ + Unwrap(v) * ToBigUint(e.linear_combinations[i][1])]
               ELSE IF st.x # {}
                 THEN [st EXCEPT !.x = {}, !.stop = TRUE]
               ELSE [st EXCEPT !.x = {i}]
         IN BoundLoop(bs, e, i + 1, next)

\* identify_booleans: the fact store after the expression has been scanned.
identify_booleans(bs, arith) ==
    LET mt == arith.mul_terms
        lc == arith.linear_combinations
        \* the value of x before the final insertion, and the positive bounds
        found ==
          IF Len(mt) = 1 /\ Len(lc) = 1
            THEN IF /\ mt[1][2] = mt[1][3]
                    /\ mt[1][2] = lc[1][2]
                    /\ arith.q_c = 0
                    /\ FAdd(mt[1][1], lc[1][1]) = 0
                   THEN [x |-> {1}, positive |-> bs.positive_witness]
                 ELSE IF are_boolean(bs, mt[1][2], mt[1][3])
                   THEN IF arith.q_c = 0
                          THEN IF FAdd(mt[1][1], lc[1][1]) = 0
                                 THEN [x |-> {1}, positive |-> bs.positive_witness]
                                 ELSE [x |-> {}, positive |-> bs.positive_witness]
                        ELSE IF FAdd(mt[1][1], arith.q_c) = 0 /\ mt[1][1] = lc[1][1]
                          THEN [x |-> {1}, positive |-> bs.positive_witness]
                        ELSE [x |-> {}, positive |-> bs.positive_witness]
                 ELSE [x |-> {}, positive |-> bs.positive_witness]
          ELSE IF mt = <<>> /\ Len(lc) = 2
            THEN LET z == IF is_boolean(bs, lc[1][2]) /\ ~is_boolean(bs, lc[2][2]) THEN {2}
                          ELSE IF is_boolean(bs, lc[2][2]) /\ ~is_boolean(bs, lc[1][2]) THEN {1}
                          ELSE {}
                 IN IF z # {}
                      THEN IF arith.q_c = 0
                             THEN IF FAdd(lc[1][1], lc[2][1]) = 0
                                    THEN [x |-> z, positive |-> bs.positive_witness]
                                    ELSE [x |-> {}, positive |-> bs.positive_witness]
                           ELSE IF FAdd(arith.q_c, lc[2][1]) = 0 /\ lc[1][1] = lc[2][1]
                             THEN [x |-> {1}, positive |-> bs.positive_witness]
                           ELSE [x |-> {}, positive |-> bs.positive_witness]
                      ELSE [x |-> {}, positive |-> bs.positive_witness]
          ELSE IF mt = <<>> /\ Len(lc) > 2
            THEN LET st == BoundLoop(bs, arith, 1,
                               [max |-> ToBigUint(arith.q_c), x |-> {}, stop |-> FALSE])
                 IN IF /\ st.max < Modulus
                       /\ st.x # {}
                       /\ lc[Unwrap(st.x)][1] = FNeg(FOne)
                      THEN [x |-> {},
                            positive |-> Insert(bs.positive_witness,
                                                lc[Unwrap(st.x)][2], st.max)]
                      ELSE [x |-> st.x, positive |-> bs.positive_witness]
          ELSE [x |-> {}, positive |-> bs.positive_witness]
    IN [binary_witness |->
            IF found.x # {} THEN bs.binary_witness \cup {lc[Unwrap(found.x)][2]}
            ELSE bs.binary_witness,
        invert_witness |-> bs.invert_witness,
        positive_witness |-> found.positive]

\* identify_binaries looking at directives only.
identify_binaries_directives_only(bs, gate) ==
    IF gate.kind = "Invert"
      THEN [bs EXCEPT !.invert_witness = Insert(@, gate.x, gate.result)]
    ELSE bs

\* identify_binaries: boolean and inverse constraints of a gate.
identify_binaries(bs, gate) ==
    IF gate.kind = "Invert"
      THEN [bs EXCEPT !.invert_witness = Insert(@, gate.x, gate.result)]
    ELSE IF gate.kind = "Arithmetic" THEN identify_booleans(bs, gate)
    ELSE bs

\* solve with solve_booleans run on the gate as given, not on its residual.
solve_unevaluated(bs, gate, wm) ==
    IF gate.kind = "Arithmetic"
      THEN LET r == solve_booleans(bs, wm, gate)
           IN [result |-> r.result, wm |-> r.wm,
               bs |-> identify_booleans(bs, evaluate(gate, wm))]
      ELSE [result |-> Skip, wm |-> wm, bs |-> identify_binaries(bs, gate)]

\* solve that reports a gate it only scanned for facts as Resolved.
solve_resolving_directives(bs, gate, wm) ==
    IF gate.kind = "Arithmetic"
      THEN LET partial_gate == evaluate(gate, wm)
               r == solve_booleans(bs, wm, partial_gate)
           IN [result |-> r.result, wm |-> r.wm,
               bs |-> identify_booleans(bs, partial_gate)]
      ELSE [result |-> Resolved, wm |-> wm, bs |-> identify_binaries(bs, gate)]

\* BinarySolver::solve: [result, wm, bs] after the gate has been processed.
solve(bs, gate, wm) ==
    IF gate.kind = "Arithmetic"
      THEN LET partial_gate == evaluate(gate, wm)
               r == solve_booleans(bs, wm, partial_gate)
           IN [result |-> r.result, wm |-> r.wm,
               bs |-> identify_booleans(bs, partial_gate)]
      ELSE [result |-> Skip, wm |-> wm, bs |-> identify_binaries(bs, gate)]

\* ------------------------------------------------------------------ inputs
\* The gates the solver is run on: the shapes the sub-solver looks for and
\* their near misses, over all choices of witnesses.
NegOne == FNeg(FOne)
Coefficients == {1, 2, NegOne}

BooleanGates ==
    {Expression(<<<<1, x, x>>>>, <<<<NegOne, x>>>>, 0) : x \in Witness}
ProductGates ==
    {Expression(<<<<c, xy[1], xy[2]>>>>, <<>>, q) :
        c \in {1, NegOne}, xy \in {p \in Witness \X Witness : p[1] < p[2]},
        q \in {0, 1, 2, NegOne}}
OneTermGates ==
    {Expression(<<>>, <<<<c, x>>>>, q) : c \in {1, NegOne}, x \in Witness, q \in {0, 1, NegOne}}
TwoTermGates ==
    {Expression(<<>>, <<<<cq[1], xy[1]>>, <<cq[2], xy[2]>>>>, cq[3]) :
        cq \in {<<1, NegOne, 0>>, <<1, 1, NegOne>>, <<1, 2, 0>>},
        xy \in {p \in Witness \X Witness : p[1] # p[2]}}
ThreeTermGates ==
    {Expression(<<>>, <<<<1, abx[1]>>, <<1, abx[2]>>, <<c, abx[3]>>>>, 0) :
        c \in Coefficients,
        abx \in {p \in Witness \X Witness \X Witness :
                    p[1] < p[2] /\ p[3] # p[1] /\ p[3] # p[2]}}
ProductTermGates ==
    {Expression(<<<<1, abx[1], abx[2]>>>>, <<<<cq[1], abx[3]>>>>, cq[2]) :
        cq \in {<<NegOne, 0>>, <<1, NegOne>>, <<1, 0>>},
        abx \in {p \in Witness \X Witness \X Witness :
                    p[1] < p[2] /\ p[3] # p[1] /\ p[3] # p[2]}}
\* c*x*x + d*y + q = 0: the idempotence shape and its near misses.
SquareGates ==
    {Expression(<<<<cdq[1], xy[1], xy[1]>>>>, <<<<cdq[2], xy[2]>>>>, cdq[3]) :
        cdq \in {<<2, FNeg(2), 0>>, <<1, NegOne, 1>>, <<1, 1, 0>>, <<1, NegOne, 0>>,
                 <<1, 1, NegOne>>},
        xy \in Witness \X Witness}
\* 0*a + 0*a - x = 0: linear terms with coefficient zero.
ZeroTermGates ==
    {Expression(<<>>, <<<<0, ax[1]>>, <<0, ax[1]>>, <<NegOne, ax[2]>>>>, 0) :
        ax \in {p \in Witness \X Witness : p[1] # p[2]}}
ArithmeticGates ==
    BooleanGates \cup ProductGates \cup OneTermGates \cup TwoTermGates
        \cup ThreeTermGates \cup ProductTermGates \cup SquareGates
        \cup ZeroTermGates
\* Invert{x, result} over every pair of witnesses, x = result included.
Directives == {InvertGate(xr[1], xr[2]) : xr \in Witness \X Witness}
Gates == ArithmeticGates \cup Directives \cup {OtherGate}

\* The witness maps a caller can pass in: the first k witnesses carry the
\* values of the inputs.
InputMaps == UNION {[1 .. k -> FieldElement] : k \in 0 .. MaxInputs}

\* ------------------------------------------------------------------ ABI inputs
\* In Barretenberg the proof system adds a zero witness in the first index.
WITNESS_OFFSET == 1
MAIN_RETURN_NAME == "return"

\* InputValue.  The object of a Struct is the sequence of its field values in
\* the order its map iterates them.
FieldValue(element) == [kind |-> "Field", element |-> element]
VecValue(arr) == [kind |-> "Vec", arr |-> arr]
StructValue(object) == [kind |-> "Struct", object |-> object]
Undefined == [kind |-> "Undefined"]

\* AbiType, as far as process_abi_with_input looks at it.
FieldType == [kind |-> "Field"]
ArrayType(length) == [kind |-> "Array", length |-> length]
StructType(n) == [kind |-> "Struct", fields |-> n]

\* One insertion of a value at the next witness: the state st of the
\* conversion is [index, return_witness, solved_witness, status].  The map is
\* written before assert!(old_value.is_none()) looks at what was there.
InsertWitnessNoAdvance(st, element) ==
    LET w == st.index + WITNESS_OFFSET
    IN IF ContainsKey(st.solved_witness, w)
         THEN [st EXCEPT !.solved_witness = Insert(@, w, element),
                         !.status = "panic_old_value"]
         ELSE [st EXCEPT !.solved_witness = Insert(@, w, element)]

InsertWitness(st, element) ==
    LET w == st.index + WITNESS_OFFSET
    IN IF ContainsKey(st.solved_witness, w)
         THEN [st EXCEPT !.solved_witness = Insert(@, w, element),
                         !.status = "panic_old_value"]
         ELSE [st EXCEPT !.solved_witness = Insert(@, w, element),
                         !.index = @ + 1]

\* The loop over the elements of a Vec.
RECURSIVE InsertElements(_, _, _)
InsertElements(arr, i, st) ==
    IF i > Len(arr) \/ st.status # "running" THEN st
    ELSE InsertElements(arr, i + 1, InsertWitness(st, arr[i]))

RECURSIVE input_value_into_witness(_, _, _, _)
\* The loop over the fields of a Struct.
RECURSIVE InsertFields(_, _, _, _)
InsertFields(object, i, st, len) ==
    IF i > Len(object) \/ st.status # "running" THEN st
    ELSE InsertFields(object, i + 1,
                      input_value_into_witness(object[i], st, "field", len), len)

input_value_into_witness(value, st, param_name, len) ==
    IF value.kind = "Field" THEN InsertWitness(st, value.element)
    ELSE IF value.kind = "Vec" THEN InsertElements(value.arr, 1, st)
    ELSE IF value.kind = "Struct" THEN InsertFields(value.object, 1, st, len)
    ELSE IF param_name # MAIN_RETURN_NAME THEN [st EXCEPT !.status = "panic_not_defined"]
    ELSE IF len # 1 THEN [st EXCEPT !.status = "error"]
    ELSE [st EXCEPT !.return_witness = {st.index + WITNESS_OFFSET},
                    !.index = @ + len]

\* The number of witnesses of the return value, from its type.
ReturnWitnessLen(parameters) ==
    LET found == {i \in DOMAIN parameters : parameters[i].name = MAIN_RETURN_NAME}
    IN IF found = {} THEN 0
       ELSE LET typ == parameters[CHOOSE i \in found : \A j \in found : i <= j].typ
            IN IF typ.kind = "Array" THEN typ.length
               ELSE IF typ.kind = "Struct" THEN typ.fields
               ELSE 1

\* The values passed in: fields, arrays, structs of them and one struct in a
\* struct.
Elements == {1, 2}
Arrays == UNION {[1 .. n -> Elements] : n \in 0 .. MaxLen}
FieldInputs == {FieldValue(1), VecValue(<<2, 1>>),
                StructValue(<<FieldValue(1), FieldValue(2)>>)}
InputValues ==
    {FieldValue(v) : v \in Elements}
      \cup {VecValue(arr) : arr \in Arrays}
      \cup {StructValue(object) :
               object \in UNION {[1 .. n -> FieldInputs] : n \in 1 .. MaxLen}}

\* A parameter of main with the entry of the prover file under its name:
\* value is what witness_map.get finds (None when the name is missing),
\* matches what matches_abi answers for it.
Parameters ==
    [name : {"x"}, typ : {FieldType},
     value : {{}} \cup {{v} : v \in InputValues \cup {Undefined}},
     matches : BOOLEAN]
ReturnParameters ==
    [name : {MAIN_RETURN_NAME},
     typ : {FieldType, ArrayType(1), ArrayType(2), StructType(2)},
     value : {{}, {Undefined}, {FieldValue(2)}, {VecValue(<<1, 2>>)}},
     matches : BOOLEAN]
\* The ABI of main: its parameters in order, then its return value if it has
\* one.
Abis ==
    LET params == UNION {[1 .. n -> Parameters] : n \in 0 .. MaxParams}
    IN params \cup {Append(ps, r) : ps \in params, r \in ReturnParameters}

\* ------------------------------------------------------------------ state
VARIABLES
    binary_witness,     \* BinarySolver.binary_witness
    invert_witness,     \* BinarySolver.invert_witness
    positive_witness,   \* BinarySolver.positive_witness
    initial_witness,    \* the witness map the calls share
    seed,               \* the witness map as the caller passed it in
    last,               \* the call that has just returned: gate and outcome
    calls,              \* how many calls the caller has made
    gates,              \* the circuit of the solving run
    pending,            \* positions of the gates still to visit in this pass
    kept,               \* positions of the gates this pass could not resolve
    unsupported,        \* positions of the gates handed to another backend
    progress,           \* this pass has resolved a gate
    passes,             \* passes started
    steps,              \* steps the loop has taken
    status,             \* running, done, stuck or failed
    caller,             \* what solve_witness made of the outcome of the run
    abi,                \* the ABI parameters not yet turned into witnesses
    return_witness_len, \* process_abi_with_input: witnesses of the return value
    index,              \* process_abi_with_input: witnesses handed out so far
    return_witness,     \* process_abi_with_input: Option<Witness>
    solved_witness,     \* process_abi_with_input: the map being built
    abi_status          \* idle, running, ok, error or panic
solver_vars == <<binary_witness, invert_witness, positive_witness, initial_witness>>
abi_vars == <<abi, return_witness_len, index, return_witness, solved_witness, abi_status>>
run_vars == <<gates, pending, kept, unsupported, progress, passes, steps, status,
              caller, abi_vars>>
vars == <<binary_witness, invert_witness, positive_witness, initial_witness,
          seed, last, calls, gates, pending, kept, unsupported, progress, passes, steps,
          status, caller, abi, return_witness_len, index, return_witness, solved_witness,
          abi_status>>

Store == [binary_witness |-> binary_witness,
          invert_witness |-> invert_witness,
          positive_witness |-> positive_witness]

NoCall == [op |-> "none", gate |-> OtherGate, result |-> Skip]

Init ==
    /\ binary_witness = {}
    /\ invert_witness = EmptyMap
    /\ positive_witness = EmptyMap
    /\ seed \in InputMaps
    /\ initial_witness = seed
    /\ last = NoCall
    /\ calls = 0
    /\ gates = <<>>
    /\ pending = <<>>
    /\ kept = <<>>
    /\ unsupported = {}
    /\ progress = FALSE
    /\ passes = 0
    /\ steps = 0
    /\ status = "idle"
    /\ caller = "waiting"
    /\ abi = <<>>
    /\ return_witness_len = 0
    /\ index = 0
    /\ return_witness = {}
    /\ solved_witness = EmptyMap
    /\ abi_status = "idle"

\* One call of BinarySolver::solve on a gate.
Solve(gate) ==
    LET r == solve(Store, gate, initial_witness)
    IN /\ last = NoCall
       /\ calls < MaxCalls
       /\ binary_witness' = r.bs.binary_witness
       /\ invert_witness' = r.bs.invert_witness
       /\ positive_witness' = r.bs.positive_witness
       /\ initial_witness' = r.wm
       /\ last' = [op |-> "solve", gate |-> gate, result |-> r.result]
       /\ calls' = calls + 1
       /\ UNCHANGED <<seed, run_vars>>

\* One call of BinarySolver::identify_binaries on a gate.
IdentifyBinaries(gate) ==
    LET bs == identify_binaries(Store, gate)
    IN /\ last = NoCall
       /\ calls < MaxCalls
       /\ binary_witness' = bs.binary_witness
       /\ invert_witness' = bs.invert_witness
       /\ positive_witness' = bs.positive_witness
       /\ last' = [op |-> "identify_binaries", gate |-> gate, result |-> Skip]
       /\ calls' = calls + 1
       /\ UNCHANGED <<initial_witness, seed, run_vars>>

SolveCall == \E gate \in Gates : Solve(gate)
IdentifyCall == \E gate \in Gates : IdentifyBinaries(gate)

\* The caller has looked at the outcome and goes on to its next call.
Return ==
    /\ last # NoCall
    /\ last' = NoCall
    /\ UNCHANGED <<solver_vars, seed, calls, run_vars>>

Next == SolveCall \/ IdentifyCall \/ Return

Spec == Init /\ [][Next]_vars

\* ------------------------------------------------------------------ meaning
\* What the gates and the facts say about a complete assignment of the
\* witnesses.
Assignments == [Witness -> FieldElement]

RECURSIVE SumMul(_, _, _)
SumMul(e, a, i) ==
    IF i > Len(e.mul_terms) THEN 0
    ELSE FAdd(FMul(e.mul_terms[i][1], FMul(a[e.mul_terms[i][2]], a[e.mul_terms[i][3]])),
              SumMul(e, a, i + 1))

RECURSIVE SumLin(_, _, _)
SumLin(e, a, i) ==
    IF i > Len(e.linear_combinations) THEN 0
    ELSE FAdd(FMul(e.linear_combinations[i][1], a[e.linear_combinations[i][2]]),
              SumLin(e, a, i + 1))

\* The value of the expression in the field under the assignment a.
Value(e, a) == FAdd(FAdd(SumMul(e, a, 1), SumLin(e, a, 1)), e.q_c)

Extends(a, wm) == \A w \in DOMAIN wm : a[w] = wm[w]

\* Directive::Invert{x, result}: result = 1/x when x # 0, else 0.
InvertHolds(vx, vr) == IF vx # 0 THEN FMul(vx, vr) = FOne ELSE vr = 0

RespectsInverse(a, bs) ==
    \A x \in DOMAIN bs.invert_witness : InvertHolds(a[x], a[bs.invert_witness[x]])

RespectsFacts(a, bs) ==
    /\ RespectsInverse(a, bs)
    /\ \A w \in bs.binary_witness : a[w] \in {0, 1}
    /\ \A w \in DOMAIN bs.positive_witness : a[w] <= bs.positive_witness[w]

\* The call that has just returned was solve on an arithmetic gate.
SolvedArithmetic(l) == l.op = "solve" /\ l.gate.kind = "Arithmetic"

\* ------------------------------------------------------------------ the run
\* The fixed-point loop over one circuit: every pass visits the gates not yet
\* resolved, in order, on the shared witness map and fact store.
RunGates ==
    BooleanGates
      \cup {Expression(<<>>, <<<<1, xy[1]>>, <<cq[1], xy[2]>>>>, cq[2]) :
               cq \in {<<1, NegOne>>, <<NegOne, 0>>},
               xy \in {p \in Witness \X Witness : p[1] < p[2]}}
      \cup {Expression(<<>>, <<<<1, 1>>, <<1, 2>>, <<c, 3>>>>, 0) : c \in {2, NegOne}}
      \cup {Expression(<<>>, <<<<NegOne, x>>>>, 0) : x \in Witness}
      \cup {Expression(<<<<1, 1, 2>>>>, <<>>, q) : q \in {0, NegOne}}
      \cup {InvertGate(xr[1], xr[2]) : xr \in {p \in Witness \X Witness : p[1] < p[2]}}
      \cup {OtherGate}

Circuits == UNION {[1 .. n -> RunGates] : n \in 0 .. MaxGates}

Positions(n) == [i \in 1 .. n |-> i]

InitRun ==
    /\ binary_witness = {}
    /\ invert_witness = EmptyMap
    /\ positive_witness = EmptyMap
    /\ seed \in InputMaps
    /\ initial_witness = seed
    /\ last = NoCall
    /\ calls = 0
    /\ gates \in Circuits
    /\ pending = Positions(Len(gates))
    /\ kept = <<>>
    /\ unsupported = {}
    /\ progress = FALSE
    /\ passes = IF gates = <<>> THEN 0 ELSE 1
    /\ steps = 0
    /\ status = IF gates = <<>> THEN "done" ELSE "running"
    /\ caller = "waiting"
    /\ abi = <<>>
    /\ return_witness_len = 0
    /\ index = 0
    /\ return_witness = {}
    /\ solved_witness = EmptyMap
    /\ abi_status = "idle"

\* RunGate with a new fact counted as progress of the pass.
RunGateAnyChange ==
    /\ status = "running"
    /\ pending # <<>>
    /\ gates[Head(pending)].kind # "Other"
    /\ LET gate == gates[Head(pending)]
           r == solve(Store, gate, initial_witness)
       IN /\ binary_witness' = r.bs.binary_witness
          /\ invert_witness' = r.bs.invert_witness
          /\ positive_witness' = r.bs.positive_witness
          /\ initial_witness' = r.wm
          /\ last' = [op |-> "solve", gate |-> gate, result |-> r.result]
          /\ pending' = Tail(pending)
          /\ kept' = IF r.result = Skip THEN Append(kept, Head(pending)) ELSE kept
          /\ progress' = (progress \/ r.result = Resolved \/ r.bs # Store)
          /\ status' = IF r.result = UnsatisfiedConstrain THEN "failed" ELSE status
    /\ steps' = steps + 1
    /\ UNCHANGED <<seed, calls, gates, unsupported, passes, caller, abi_vars>>

\* The loop visits the next gate of the pass: solve is called on it and the
\* outcome is merged.
RunGate ==
    /\ status = "running"
    /\ pending # <<>>
    /\ gates[Head(pending)].kind # "Other"
    /\ LET gate == gates[Head(pending)]
           r == solve(Store, gate, initial_witness)
       IN /\ binary_witness' = r.bs.binary_witness
          /\ invert_witness' = r.bs.invert_witness
          /\ positive_witness' = r.bs.positive_witness
          /\ initial_witness' = r.wm
          /\ last' = [op |-> "solve", gate |-> gate, result |-> r.result]
          /\ pending' = Tail(pending)
          /\ kept' = IF r.result = Skip THEN Append(kept, Head(pending)) ELSE kept
          /\ progress' = (progress \/ r.result = Resolved)
          /\ status' = IF r.result = UnsatisfiedConstrain THEN "failed" ELSE status
    /\ steps' = steps + 1
    /\ UNCHANGED <<seed, calls, gates, unsupported, passes, caller, abi_vars>>

\* A gate that is neither arithmetic nor a directive is handed to the caller.
RunUnsupported ==
    /\ status = "running"
    /\ pending # <<>>
    /\ gates[Head(pending)].kind = "Other"
    /\ unsupported' = unsupported \cup {Head(pending)}
    /\ pending' = Tail(pending)
    /\ last' = NoCall
    /\ steps' = steps + 1
    /\ UNCHANGED <<solver_vars, seed, calls, gates, kept, progress, passes, status,
                   caller, abi_vars>>

\* The pass is over: stop when nothing is left or nothing was resolved, else
\* start the next pass on the gates that were kept.
EndPass ==
    /\ status = "running"
    /\ pending = <<>>
    /\ IF kept = <<>>
         THEN status' = "done" /\ UNCHANGED <<pending, kept, progress, passes>>
       ELSE IF ~progress
         THEN status' = "stuck" /\ UNCHANGED <<pending, kept, progress, passes>>
       ELSE /\ pending' = kept
            /\ kept' = <<>>
            /\ progress' = FALSE
            /\ passes' = passes + 1
            /\ UNCHANGED status
    /\ last' = NoCall
    /\ steps' = steps + 1
    /\ UNCHANGED <<solver_vars, seed, calls, gates, unsupported, caller, abi_vars>>

\* What the run hands back to its caller: the terminal status as a
\* GateResolution.
RunResult ==
    IF status = "failed" THEN UnsatisfiedConstrain
    ELSE IF unsupported # {} THEN UnsupportedOpcode
    ELSE IF status = "stuck" THEN Skip
    ELSE Resolved

\* solve_witness: the match on the outcome of the run.  The arm for every
\* outcome it does not name is unreachable!(), which panics.
SolveWitness ==
    /\ status \in {"done", "stuck", "failed"}
    /\ caller = "waiting"
    /\ LET solver_res == RunResult
       IN caller' = IF solver_res = UnsupportedOpcode THEN "unsupported_error"
                    ELSE IF solver_res = UnsatisfiedConstrain THEN "unsatisfied_error"
                    ELSE IF solver_res = Resolved THEN "ok"
                    ELSE "panic"
    /\ UNCHANGED <<solver_vars, seed, last, calls, gates, pending, kept, unsupported,
                   progress, passes, steps, status, abi_vars>>

NextRun == RunGate \/ RunUnsupported \/ EndPass \/ SolveWitness

SpecRun == InitRun /\ [][NextRun]_vars

Terminal == {"done", "stuck", "failed"}

\* Every gate of the circuit holds under the assignment a.
CircuitHolds(a) ==
    \A i \in DOMAIN gates :
        /\ gates[i].kind = "Arithmetic" => Value(gates[i], a) = 0
        /\ gates[i].kind = "Invert" => InvertHolds(a[gates[i].x], a[gates[i].result])

\* ------------------------------------------------------------------ C1
\* C1: a witness that has a value before a call of solve has the same value
\* after it: solve_booleans and the inverse direct solve only add entries.
WitnessMapMonotone ==
    [][\A w \in DOMAIN initial_witness :
          w \in DOMAIN initial_witness' /\ initial_witness'[w] = initial_witness[w]]_vars

\* A call has written a new entry next to an entry the caller passed in.
WitnessMapGrew ==
    /\ SolvedArithmetic(last)
    /\ last.result = Resolved
    /\ DOMAIN seed # {}
    /\ (DOMAIN initial_witness) \ (DOMAIN seed) # {}
    /\ \A w \in DOMAIN seed : initial_witness[w] = seed[w]

\* ------------------------------------------------------------------ C2
\* C2: no fact is retracted or changed by a call: a boolean witness stays
\* boolean, an inverse pair stays an inverse pair, a recorded positive bound
\* keeps its value.
FactsNeverRetracted ==
    [][/\ binary_witness \subseteq binary_witness'
       /\ \A x \in Witness, y \in Witness :
             are_inverse(Store, x, y) => are_inverse(Store', x, y)
       /\ \A w \in DOMAIN positive_witness :
             w \in DOMAIN positive_witness' /\ positive_witness'[w] = positive_witness[w]]_vars

\* ------------------------------------------------------------------ C3
\* C3: when solve returns UnsatisfiedConstrain for an arithmetic gate, no
\* assignment that extends the witness map and respects the recorded facts
\* (inverse pairs, booleans, bounds) makes the gate zero.
UnsatOnlyWhenViolated ==
    (SolvedArithmetic(last) /\ last.result = UnsatisfiedConstrain)
        => ~ \E a \in Assignments :
                /\ Extends(a, initial_witness)
                /\ RespectsFacts(a, Store)
                /\ Value(last.gate, a) = 0

\* ------------------------------------------------------------------ C5
\* C5: when the residual of an arithmetic gate has no unknown witness and a
\* nonzero constant, solve returns UnsatisfiedConstrain.
ConstantResidualIsUnsat ==
    [][(/\ SolvedArithmetic(last')
        /\ ExprWitnesses(last'.gate) \subseteq DOMAIN initial_witness
        /\ evaluate(last'.gate, initial_witness).q_c # 0)
          => last'.result = UnsatisfiedConstrain]_vars

\* x*x - x = 0 with x passed in as 2 has been reported unsatisfied.
NonBooleanInputRejected ==
    /\ SolvedArithmetic(last)
    /\ last.gate \in BooleanGates
    /\ \E x \in DOMAIN seed : seed[x] = 2 /\ ExprWitnesses(last.gate) = {x}
    /\ last.result = UnsatisfiedConstrain

\* ------------------------------------------------------------------ C6
\* The inverse direct solve did not decide the residual of the gate.
BoundRoute(bs, wm, gate) == solve_inverse(bs, evaluate(gate, wm), wm).result = Skip

\* C6: when the bound route of solve_booleans forces the linear witnesses of
\* a residual to 0, every completion that respects the facts and makes the
\* gate zero has them at 0, and with them at 0 every completion that respects
\* the facts makes the gate zero.
ForcedZeroIsSound ==
    [][(/\ SolvedArithmetic(last')
        /\ BoundRoute(Store, initial_witness, last'.gate)
        /\ last'.result = Resolved)
          => /\ \A a \in Assignments :
                   (/\ Extends(a, initial_witness)
                    /\ RespectsFacts(a, Store)
                    /\ Value(last'.gate, a) = 0)
                     => \A w \in LinWitnesses(evaluate(last'.gate, initial_witness)) : a[w] = 0
             /\ \A a \in Assignments :
                   (Extends(a, initial_witness') /\ RespectsFacts(a, Store))
                     => Value(last'.gate, a) = 0]_vars

\* ------------------------------------------------------------------ C7
\* The bound of an expression whose terms are all classified, constant
\* included: what is_binary adds up, without its test against the modulus.
ComputedBound(bs, e) ==
    LET m1 == IsBinaryMul(bs, e, 1, 0)
    IN IF m1 = {} THEN {}
       ELSE LET m2 == IsBinaryLin(bs, e, 1, Unwrap(m1))
            IN IF m2 = {} THEN {} ELSE {Unwrap(m2) + ToBigUint(e.q_c)}

\* What C7 asks of a call of solve on gate in the state (bs, wm) that
\* returned result and left the witness map wm2.
BoundDecides(bs, wm, gate, result, wm2) ==
    LET e == evaluate(gate, wm)
        b == ComputedBound(bs, e)
    IN b # {} =>
         /\ Unwrap(b) = Modulus - 1 =>
               IF e.q_c = 0
                 THEN result = Resolved /\ \A w \in LinWitnesses(e) : wm2[w] = 0
                 ELSE result = UnsatisfiedConstrain
         /\ Unwrap(b) >= Modulus => (result = Skip /\ wm2 = wm)

\* C7 as stated: a bound of modulus - 1 is acted on, a bound of the modulus
\* or more gives Skip and no change of the witness map.
BoundTightness ==
    [][SolvedArithmetic(last')
          => BoundDecides(Store, initial_witness, last'.gate, last'.result,
                          initial_witness')]_vars

\* C7 amended: the same, for the gates the inverse direct solve leaves
\* undecided.
BoundTightnessOnBoundRoute ==
    [][(SolvedArithmetic(last') /\ BoundRoute(Store, initial_witness, last'.gate))
          => BoundDecides(Store, initial_witness, last'.gate, last'.result,
                          initial_witness')]_vars

\* A residual -w = 0 over a boolean w: its bound is modulus - 1, w is now 0.
BoundJustBelowModulus ==
    /\ SolvedArithmetic(last)
    /\ last.result = Resolved
    /\ last.gate.mul_terms = <<>>
    /\ Len(last.gate.linear_combinations) = 1
    /\ last.gate.linear_combinations[1][1] = NegOne
    /\ last.gate.q_c = 0
    /\ last.gate.linear_combinations[1][2] \in binary_witness
    /\ last.gate.linear_combinations[1][2] \notin DOMAIN seed
    /\ initial_witness[last.gate.linear_combinations[1][2]] = 0

\* ------------------------------------------------------------------ C9
\* C9: a recorded inverse pair (x, y) with both witnesses assigned, at least
\* one of them by the engine, has x*y = 1 when x # 0 and x = y = 0 otherwise.
InversePairsHold ==
    \A x \in DOMAIN invert_witness :
        LET y == invert_witness[x]
        IN (/\ x \in DOMAIN initial_witness
            /\ y \in DOMAIN initial_witness
            /\ ({x, y} \ (DOMAIN seed)) # {})
              => InvertHolds(initial_witness[x], initial_witness[y])

\* ------------------------------------------------------------------ C4
\* x*x - x = 0, y*y - y = 0, x + y - 1 = 0 with x passed in as 1.
ReferenceCircuit ==
    <<Expression(<<<<1, 1, 1>>>>, <<<<NegOne, 1>>>>, 0),
      Expression(<<<<1, 2, 2>>>>, <<<<NegOne, 2>>>>, 0),
      Expression(<<>>, <<<<1, 1>>, <<1, 2>>>>, NegOne)>>
ReferenceRun == gates = ReferenceCircuit /\ seed = (1 :> 1)

\* C4: the run on the reference circuit never sees UnsatisfiedConstrain and
\* can only end done, with y = 0.
NoFalseUnsat ==
    ReferenceRun =>
      /\ last.result # UnsatisfiedConstrain
      /\ status # "failed"
      /\ status \in Terminal =>
            /\ status = "done"
            /\ unsupported = {}
            /\ 2 \in DOMAIN initial_witness
            /\ initial_witness[2] = 0

ReferenceRunDone == ReferenceRun /\ status = "done" /\ passes = 2

\* ------------------------------------------------------------------ C8
\* C8: a witness in the boolean set is 0 or 1 in every assignment that
\* extends the witness map and satisfies every gate and directive of the
\* circuit.
BooleanSetSound ==
    \A a \in Assignments :
        (Extends(a, initial_witness) /\ CircuitHolds(a))
          => \A w \in binary_witness : a[w] \in {0, 1}

\* ------------------------------------------------------------------ C10
\* The steps a run over n gates can take: the passes visit at most
\* n, n-1, ..., 1 gates and each pass ends once.
StepLimit(n) == (n * (n + 3)) \div 2

StuckIsNotFailure ==
    status = "stuck" =>
        /\ RunResult # UnsatisfiedConstrain
        /\ caller \notin {"unsatisfied_error", "panic"}

\* ------------------------------------------------------------------ C13
\* C13: are_inverse gives the same answer for (w1, w2) and (w2, w1) in every
\* fact store, and once an Invert{x, result} directive has been scanned it is
\* true of (x, result) and of (result, x).
AreInverseSymmetric ==
    [][/\ \A w1 \in Witness, w2 \in Witness :
            are_inverse(Store', w1, w2) = are_inverse(Store', w2, w1)
       /\ (last'.op # "none" /\ last'.gate.kind = "Invert")
             => /\ are_inverse(Store', last'.gate.x, last'.gate.result)
                /\ are_inverse(Store', last'.gate.result, last'.gate.x)]_vars

\* A directive has been scanned whose result is not itself a key of the map:
\* the pair is found from the result only through the second lookup.
InverseFoundFromResult ==
    /\ last.op = "identify_binaries"
    /\ last.gate.kind = "Invert"
    /\ ~ContainsKey(invert_witness, last.gate.result)
    /\ are_inverse(Store, last.gate.result, last.gate.x)

\* ------------------------------------------------------------------ C14
\* C14: are_boolean(w1, w2) is true exactly when the inverse-pair map relates
\* w1 and w2 in one order or the other, or both are in the boolean set.
AreBooleanExact ==
    \A w1 \in Witness, w2 \in Witness :
        are_boolean(Store, w1, w2)
          <=> \/ (w1 \in DOMAIN invert_witness /\ invert_witness[w1] = w2)
              \/ (w2 \in DOMAIN invert_witness /\ invert_witness[w2] = w1)
              \/ {w1, w2} \subseteq binary_witness

\* One witness of a pair is boolean, the other is not, they are not inverse:
\* are_boolean is false; another pair is inverse without being boolean.
OneBooleanOfTwo ==
    /\ calls > 0
    /\ \E w1 \in binary_witness, w2 \in Witness \ binary_witness :
          ~are_inverse(Store, w1, w2) /\ ~are_boolean(Store, w1, w2)
    /\ \E x \in DOMAIN invert_witness :
          /\ {x, invert_witness[x]} \cap binary_witness = {}
          /\ are_boolean(Store, invert_witness[x], x)

\* ------------------------------------------------------------------ C15
\* C15: get_max_value(w) is 1 for a witness of the boolean set, whether or
\* not it has a recorded bound, else the recorded bound, else None; and
\* is_boolean(w) is membership in the boolean set.
MaxValueOfFacts ==
    \A w \in Witness :
        /\ is_boolean(Store, w) <=> w \in binary_witness
        /\ w \in binary_witness => get_max_value(Store, w) = {1}
        /\ (w \notin binary_witness /\ w \in DOMAIN positive_witness)
              => get_max_value(Store, w) = {positive_witness[w]}
        /\ (w \notin binary_witness /\ w \notin DOMAIN positive_witness)
              => get_max_value(Store, w) = {}

\* A witness with a recorded bound other than 1 has become boolean.
BooleanWithBound ==
    \E w \in binary_witness :
        /\ w \in DOMAIN positive_witness
        /\ positive_witness[w] # 1
        /\ get_max_value(Store, w) = {1}

\* ------------------------------------------------------------------ C17
\* C17: the facts solve adds for an arithmetic gate are the facts
\* identify_booleans finds in the gate as it was given, whatever witnesses of
\* the gate are assigned.
FactsFromOriginalGate ==
    [][SolvedArithmetic(last') => Store' = identify_booleans(Store, last'.gate)]_vars

\* ------------------------------------------------------------------ C18
\* C18: after an arithmetic gate c*x*y + q = 0 that says x*y = 1 (q = -c) or
\* x*y = 0 (q = 0) has been scanned, are_inverse(x, y) is true.
InversePairFromProduct ==
    [][(/\ last'.op # "none"
        /\ last'.gate \in ProductGates
        /\ last'.gate.q_c \in {0, FNeg(last'.gate.mul_terms[1][1])}
        /\ ExprWitnesses(last'.gate) \cap DOMAIN initial_witness = {})
          => are_inverse(Store', last'.gate.mul_terms[1][2], last'.gate.mul_terms[1][3])]_vars

\* ------------------------------------------------------------------ C19
\* The expression is one quadratic term over a recorded inverse pair and a
\* constant.
InverseShape(bs, e) ==
    /\ Len(e.mul_terms) = 1
    /\ e.linear_combinations = <<>>
    /\ are_inverse(bs, e.mul_terms[1][2], e.mul_terms[1][3])

\* C19: on such an expression solve_inverse returns UnsatisfiedConstrain when
\* the constant is neither 0 nor 1, Resolved with both witnesses at 0 when it
\* is 0, Skip when it is 1, and changes the witness map in the Resolved case
\* only.
InverseShapeOutcome ==
    [][SolvedArithmetic(last') =>
         LET e == evaluate(last'.gate, initial_witness)
             r == solve_inverse(Store, e, initial_witness)
         IN InverseShape(Store, e) =>
              LET x == e.mul_terms[1][2]
                  y == e.mul_terms[1][3]
              IN /\ e.q_c \notin {0, 1} =>
                       /\ r.result = UnsatisfiedConstrain /\ r.wm = initial_witness
                       /\ last'.result = UnsatisfiedConstrain
                       /\ initial_witness' = initial_witness
                 /\ e.q_c = 0 =>
                       /\ r.result = Resolved
                       /\ DOMAIN r.wm = (DOMAIN initial_witness) \cup {x, y}
                       /\ r.wm[x] = 0 /\ r.wm[y] = 0
                       /\ \A w \in DOMAIN initial_witness : r.wm[w] = initial_witness[w]
                       /\ last'.result = Resolved
                       /\ initial_witness' = r.wm
                 /\ e.q_c = 1 => (r.result = Skip /\ r.wm = initial_witness)]_vars

\* x*y = 0 over a recorded inverse pair has been resolved: both are now 0.
InverseProductZeroed ==
    /\ SolvedArithmetic(last)
    /\ last.gate \in ProductGates
    /\ last.gate.q_c = 0
    /\ are_inverse(Store, last.gate.mul_terms[1][2], last.gate.mul_terms[1][3])
    /\ ExprWitnesses(last.gate) \cap DOMAIN seed = {}
    /\ last.result = Resolved
    /\ \A w \in ExprWitnesses(last.gate) :
          w \in DOMAIN initial_witness /\ initial_witness[w] = 0

\* ------------------------------------------------------------------ C20
\* The expression identify_booleans scanned in the call l made on the witness
\* map wm: solve scans the residual, identify_binaries the gate.
Scanned(l, wm) == IF l.op = "solve" THEN evaluate(l.gate, wm) ELSE l.gate

\* C20: after identify_booleans has scanned c*x*x + d*x = 0 with c + d = 0
\* and constant 0, x is boolean; a gate c*x*x + d*y + q = 0 that is not of
\* that form adds no boolean when y is x and x is already boolean, and none
\* when x*x is not a product of booleans or of an inverse pair.
IdempotenceDetected ==
    [][(last'.op # "none" /\ last'.gate.kind = "Arithmetic") =>
         LET e == Scanned(last', initial_witness)
         IN (/\ Len(e.mul_terms) = 1
             /\ Len(e.linear_combinations) = 1
             /\ e.mul_terms[1][2] = e.mul_terms[1][3]) =>
              LET x == e.mul_terms[1][2]
                  y == e.linear_combinations[1][2]
                  rule == /\ y = x
                          /\ e.q_c = 0
                          /\ FAdd(e.mul_terms[1][1], e.linear_combinations[1][1]) = 0
              IN /\ rule => x \in binary_witness'
                 /\ (~rule /\ ((y = x /\ is_boolean(Store, x))
                                 \/ ~are_boolean(Store, x, x)))
                       => binary_witness' = binary_witness]_vars

\* 2*x*x - 2*x = 0, scanned after other calls that added no boolean, has
\* made the unassigned x the only boolean.
IdempotenceFound ==
    /\ last.op # "none"
    /\ last.gate \in SquareGates
    /\ last.gate.mul_terms[1][1] = 2
    /\ last.gate.mul_terms[1][2] = last.gate.linear_combinations[1][2]
    /\ last.gate.mul_terms[1][2] \notin DOMAIN initial_witness
    /\ binary_witness = {last.gate.mul_terms[1][2]}
    /\ calls > 1

\* ------------------------------------------------------------------ C21
\* C21: after identify_booleans has scanned c0*w0 + c1*w1 = 0 with
\* c0 + c1 = 0, no quadratic term and constant 0, both witnesses are boolean
\* when exactly one of them was; when both or neither were, the boolean set
\* is unchanged.
EqualityPropagates ==
    [][(last'.op # "none" /\ last'.gate.kind = "Arithmetic") =>
         LET e == Scanned(last', initial_witness)
             lc == e.linear_combinations
         IN (/\ e.mul_terms = <<>>
             /\ Len(lc) = 2
             /\ e.q_c = 0
             /\ FAdd(lc[1][1], lc[2][1]) = 0) =>
              IF Cardinality({k \in 1 .. 2 : lc[k][2] \in binary_witness}) = 1
                /\ lc[1][2] # lc[2][2]
                THEN binary_witness' = binary_witness \cup {lc[1][2], lc[2][2]}
                ELSE binary_witness' = binary_witness]_vars

\* x - y = 0 has been scanned with x boolean and y neither boolean nor
\* assigned: y is boolean now.
EqualityPropagated ==
    /\ last.op # "none"
    /\ last.gate \in TwoTermGates
    /\ last.gate.q_c = 0
    /\ last.gate.linear_combinations[2][1] = NegOne
    /\ ExprWitnesses(last.gate) \cap DOMAIN initial_witness = {}
    /\ ExprWitnesses(last.gate) \subseteq binary_witness
    /\ calls = 2

\* ------------------------------------------------------------------ C22
\* The witnesses of the linear terms of e whose max value is unknown.
UnknownMax(bs, e) ==
    {k \in DOMAIN e.linear_combinations :
        LET w == e.linear_combinations[k][2]
        IN w \notin bs.binary_witness /\ w \notin DOMAIN bs.positive_witness}

\* The constant plus, for every term but the k-th, coefficient times max
\* value.
RECURSIVE SumOfOthers(_, _, _, _)
SumOfOthers(bs, e, k, i) ==
    IF i > Len(e.linear_combinations) THEN ToBigUint(e.q_c)
    ELSE (IF i = k THEN 0
          ELSE ToBigUint(e.linear_combinations[i][1])
                 * (IF e.linear_combinations[i][2] \in bs.binary_witness THEN 1
                    ELSE bs.positive_witness[e.linear_combinations[i][2]]))
         + SumOfOthers(bs, e, k, i + 1)

\* Every assignment within the facts that makes e zero has w at 0 or 1.
ImpliesBoolean(bs, e, w) ==
    \A a \in Assignments :
        (/\ \A v \in bs.binary_witness : a[v] \in {0, 1}
         /\ \A v \in DOMAIN bs.positive_witness : a[v] <= bs.positive_witness[v]
         /\ RespectsInverse(a, bs)
         /\ Value(e, a) = 0) => a[w] \in {0, 1}

\* C22: for an expression without quadratic term and with more than two
\* linear terms, identify_booleans adds no fact when two or more witnesses
\* have no max value; when exactly one, x, has none it records the computed
\* sum as the bound of x, without marking x boolean, if the coefficient of x
\* is -1 and the sum is below the modulus, and marks x boolean only if the
\* other terms imply that x is 0 or 1.
OptimizerShape ==
    [][(last'.op # "none" /\ last'.gate.kind = "Arithmetic") =>
         LET e == Scanned(last', initial_witness)
             lc == e.linear_combinations
             unknown == UnknownMax(Store, e)
         IN (e.mul_terms = <<>> /\ Len(lc) > 2) =>
              /\ Cardinality(unknown) # 1 => Store' = Store
              /\ Cardinality(unknown) = 1 =>
                    LET k == CHOOSE i \in unknown : TRUE
                        x == lc[k][2]
                        sum == SumOfOthers(Store, e, k, 1)
                    IN /\ (lc[k][1] = NegOne /\ sum < Modulus)
                             => /\ positive_witness' = Insert(positive_witness, x, sum)
                                /\ binary_witness' = binary_witness
                       /\ x \in binary_witness' => ImpliesBoolean(Store, e, x)]_vars

\* ------------------------------------------------------------------ C23
\* The coefficients of e cancel as its shape asks: for a product and a
\* linear term c + d = 0 with constant 0, or c + q = 0 with c = d; for two
\* linear terms c0 + c1 = 0 with constant 0, or q + c1 = 0 with c0 = c1; for
\* more than two linear terms the coefficient of the one witness without max
\* value is -1.
CancelsExactly(bs, e) ==
    LET mt == e.mul_terms
        lc == e.linear_combinations
    IN IF Len(mt) = 1 /\ Len(lc) = 1
         THEN \/ (e.q_c = 0 /\ FAdd(mt[1][1], lc[1][1]) = 0)
              \/ (e.q_c # 0 /\ FAdd(mt[1][1], e.q_c) = 0 /\ mt[1][1] = lc[1][1])
       ELSE IF mt = <<>> /\ Len(lc) = 2
         THEN \/ (e.q_c = 0 /\ FAdd(lc[1][1], lc[2][1]) = 0)
              \/ (e.q_c # 0 /\ FAdd(e.q_c, lc[2][1]) = 0 /\ lc[1][1] = lc[2][1])
       ELSE IF mt = <<>> /\ Len(lc) > 2
         THEN \E k \in UnknownMax(bs, e) : FAdd(lc[k][1], FOne) = 0
       ELSE FALSE

\* C23: identify_booleans adds a boolean or a bound for a gate only when the
\* coefficients of the gate cancel exactly; otherwise the boolean set and the
\* positive-bound map are unchanged.
ExactCancellationOnly ==
    [][(last'.op # "none" /\ last'.gate.kind = "Arithmetic") =>
         (~CancelsExactly(Store, Scanned(last', initial_witness))
            => /\ binary_witness' = binary_witness
               /\ positive_witness' = positive_witness)]_vars

\* ------------------------------------------------------------------ C24
\* The positions of the circuit the run has visited at least once.
VisitedPositions ==
    IF passes > 1 THEN DOMAIN gates
    ELSE (DOMAIN gates) \ {pending[i] : i \in DOMAIN pending}

\* Every gate and directive visited so far holds under the assignment a.
VisitedHold(a) ==
    \A i \in VisitedPositions :
        /\ gates[i].kind = "Arithmetic" => Value(gates[i], a) = 0
        /\ gates[i].kind = "Invert" => InvertHolds(a[gates[i].x], a[gates[i].result])

\* C24: a recorded positive bound is below the modulus, and every assignment
\* that satisfies the gates scanned so far, with the booleans at 0 or 1,
\* gives the witness a value that is at most its bound.
PositiveBoundSound ==
    \A w \in DOMAIN positive_witness :
        /\ positive_witness[w] < Modulus
        /\ \A a \in Assignments :
              (VisitedHold(a) /\ \A v \in binary_witness : a[v] \in {0, 1})
                => a[w] <= positive_witness[w]

\* w1 and w2 boolean and w1 + w2 - w3 = 0 scanned: w3 has the bound 2.
BoundOfTwoRecorded ==
    /\ {1, 2} \subseteq binary_witness
    /\ 3 \in DOMAIN positive_witness
    /\ positive_witness[3] = 2
    /\ last.gate = Expression(<<>>, <<<<1, 1>>, <<1, 2>>, <<NegOne, 3>>>>, 0)

\* ------------------------------------------------------------------ C25
\* C25: is_binary returns None when the bound of the terms plus the constant
\* exceeds the modulus, and a bound it returns is at most the modulus.
IsBinaryLimit ==
    [][SolvedArithmetic(last') =>
         LET e == evaluate(last'.gate, initial_witness)
             b == ComputedBound(Store, e)
             r == is_binary(Store, e)
         IN /\ (b # {} /\ Unwrap(b) > Modulus) => r = {}
            /\ r # {} => Unwrap(r) <= Modulus]_vars

\* ------------------------------------------------------------------ C26
\* The expression has a quadratic term whose witnesses are not are_boolean,
\* or a linear witness that is neither boolean nor bounded.
HasUnknown(bs, e) ==
    \/ \E i \in DOMAIN e.mul_terms :
          LET w1 == e.mul_terms[i][2]
              w2 == e.mul_terms[i][3]
          IN /\ ~(w1 \in DOMAIN bs.invert_witness /\ bs.invert_witness[w1] = w2)
             /\ ~(w2 \in DOMAIN bs.invert_witness /\ bs.invert_witness[w2] = w1)
             /\ ~({w1, w2} \subseteq bs.binary_witness)
    \/ UnknownMax(bs, e) # {}

\* C26: when the inverse direct solve does not apply and the residual has an
\* unclassified quadratic term or a linear witness of unknown max value,
\* the outcome is Skip, whatever the constant, and the witness map is as it
\* was.
UnknownMeansDefer ==
    [][SolvedArithmetic(last') =>
         LET e == evaluate(last'.gate, initial_witness)
         IN (~InverseShape(Store, e) /\ HasUnknown(Store, e))
              => /\ last'.result = Skip
                 /\ initial_witness' = initial_witness
                 /\ solve_booleans(Store, initial_witness, e)
                       = [result |-> Skip, wm |-> initial_witness]]_vars

\* A gate with a nonzero constant over one boolean and one witness nothing
\* is known of has been deferred.
DeferredWithConstant ==
    /\ SolvedArithmetic(last)
    /\ last.result = Skip
    /\ last.gate.q_c # 0
    /\ last.gate.mul_terms = <<>>
    /\ Len(last.gate.linear_combinations) = 2
    /\ ExprWitnesses(last.gate) \cap DOMAIN initial_witness = {}
    /\ last.gate.linear_combinations[1][2] \in binary_witness
    /\ UnknownMax(Store, last.gate) = {2}

\* ------------------------------------------------------------------ C27
\* C27: solve on a directive returns Skip, leaves the witness map as it was
\* and records the pair of an Invert directive, assigned or not;
\* identify_binaries ends with a fact store for every gate and changes
\* nothing else; in solve on an arithmetic gate the outcome and the witness
\* map are those of solve_booleans, detection adds nothing to them.
DetectionOnlyAddsFacts ==
    [][/\ (last'.op = "solve" /\ last'.gate.kind # "Arithmetic")
             => /\ last'.result = Skip
                /\ initial_witness' = initial_witness
                /\ binary_witness' = binary_witness
                /\ positive_witness' = positive_witness
                /\ last'.gate.kind = "Invert"
                      => are_inverse(Store', last'.gate.x, last'.gate.result)
       /\ last'.op = "identify_binaries"
             => /\ initial_witness' = initial_witness
                /\ seed' = seed
                /\ last'.gate.kind = "Other" => Store' = Store
       /\ SolvedArithmetic(last')
             => LET r == solve_booleans(Store, initial_witness,
                                        evaluate(last'.gate, initial_witness))
                IN last'.result = r.result /\ initial_witness' = r.wm
       /\ last'.op # "none"
             => /\ binary_witness' \subseteq Witness
                /\ DOMAIN invert_witness' \subseteq Witness
                /\ \A x \in DOMAIN invert_witness' : invert_witness'[x] \in Witness
                /\ DOMAIN positive_witness' \subseteq Witness
                /\ \A w \in DOMAIN positive_witness' : positive_witness'[w] \in Nat]_vars

\* solve has scanned an Invert directive over two unassigned witnesses next
\* to an assigned input: Skip, the pair recorded, the map as passed in.
DirectiveScannedUnassigned ==
    /\ last.op = "solve"
    /\ last.gate.kind = "Invert"
    /\ last.result = Skip
    /\ DOMAIN seed # {}
    /\ initial_witness = seed
    /\ {last.gate.x, last.gate.result} \cap DOMAIN initial_witness = {}
    /\ are_inverse(Store, last.gate.x, last.gate.result)

\* ------------------------------------------------------------------ C28
\* The expression e with its linear terms in the order p and, when swap, the
\* two witnesses of every quadratic term exchanged.
Reordered(e, p, swap) ==
    [e EXCEPT
       !.linear_combinations = [i \in DOMAIN e.linear_combinations |->
                                   e.linear_combinations[p[i]]],
       !.mul_terms = [i \in DOMAIN e.mul_terms |->
                         IF swap THEN <<e.mul_terms[i][1], e.mul_terms[i][3], e.mul_terms[i][2]>>
                         ELSE e.mul_terms[i]]]

\* The orders of 1 .. n.
Orders(n) == {p \in [1 .. n -> 1 .. n] : \A i \in 1 .. n : \E j \in 1 .. n : p[j] = i}

\* C28: the outcome of solve_booleans and the facts identify_booleans adds
\* are the same for an expression and for the expression with its linear
\* terms permuted and the witnesses of its quadratic terms swapped.
TermOrderInsignificant ==
    [][(last'.op # "none" /\ last'.gate.kind = "Arithmetic") =>
         LET e == Scanned(last', initial_witness)
         IN \A p \in Orders(Len(e.linear_combinations)), swap \in BOOLEAN :
              /\ identify_booleans(Store, Reordered(e, p, swap)) = Store'
              /\ last'.op = "solve" =>
                    solve_booleans(Store, initial_witness, Reordered(e, p, swap))
                      = [result |-> last'.result, wm |-> initial_witness']]_vars

\* ------------------------------------------------------------------ C29
\* C29: when solve has returned Resolved for an arithmetic gate, every
\* witness of the gate has a value and the gate is zero under the witness
\* map.
ResolvedMeansSolved ==
    (SolvedArithmetic(last) /\ last.result = Resolved)
      => /\ ExprWitnesses(last.gate) \subseteq DOMAIN initial_witness
         /\ evaluate(last.gate, initial_witness) = Expression(<<>>, <<>>, 0)

\* ------------------------------------------------------------------ C30
\* C30: a call of solve that returns Skip or UnsatisfiedConstrain leaves the
\* witness map as it was, and so do solve_inverse and solve_booleans on the
\* residual whenever their outcome is not Resolved.
NoChangeUnlessResolved ==
    [][/\ (last'.op = "solve" /\ last'.result # Resolved)
             => initial_witness' = initial_witness
       /\ SolvedArithmetic(last')
             => LET e == evaluate(last'.gate, initial_witness)
                    inv == solve_inverse(Store, e, initial_witness)
                    r == solve_booleans(Store, initial_witness, e)
                IN /\ inv.result # Resolved => inv.wm = initial_witness
                   /\ r.result # Resolved => r.wm = initial_witness
                   /\ r.wm # initial_witness => last'.result = Resolved]_vars

\* A gate with a nonzero constant over a boolean has been reported
\* unsatisfied next to an input: the witness map is the one passed in.
UnsatLeftMapAlone ==
    /\ SolvedArithmetic(last)
    /\ last.result = UnsatisfiedConstrain
    /\ last.gate.linear_combinations # <<>>
    /\ LinWitnesses(last.gate) \subseteq binary_witness
    /\ LinWitnesses(last.gate) \cap DOMAIN initial_witness = {}
    /\ DOMAIN seed # {}
    /\ initial_witness = seed

\* ------------------------------------------------------------------ C31
\* The gate is c*x*x - c*x = 0 with c # 0.
BooleanConstraint(gate) ==
    /\ gate.kind = "Arithmetic"
    /\ Len(gate.mul_terms) = 1
    /\ Len(gate.linear_combinations) = 1
    /\ gate.mul_terms[1][2] = gate.mul_terms[1][3]
    /\ gate.mul_terms[1][2] = gate.linear_combinations[1][2]
    /\ gate.mul_terms[1][1] # 0
    /\ FAdd(gate.mul_terms[1][1], gate.linear_combinations[1][1]) = 0
    /\ gate.q_c = 0

\* x is not boolean, is recorded as its own inverse and has the bound 0.
SelfInverseZero(bs, x) ==
    /\ ~is_boolean(bs, x)
    /\ are_inverse(bs, x, x)
    /\ get_max_value(bs, x) = {0}

\* What C31 asks of the call of solve that has just been made on the gate
\* of l, in the state before it.
SkippedUnassigned(l) ==
    LET x == l.gate.mul_terms[1][2]
    IN /\ l.result = Skip
       /\ x \notin DOMAIN initial_witness'
       /\ x \in binary_witness => is_binary(Store, l.gate) = {Modulus}

\* C31 as stated: a call of solve on c*x*x - c*x = 0 with c # 0 and x
\* unassigned returns Skip and leaves x unassigned, whatever facts the
\* solver holds; when x is boolean the bound is_binary computes is the
\* modulus itself.
BooleanConstraintNeverForces ==
    [][(last'.op = "solve" /\ BooleanConstraint(last'.gate)
          /\ last'.gate.mul_terms[1][2] \notin DOMAIN initial_witness)
         => SkippedUnassigned(last')]_vars

\* C31: a call of solve on c*x*x - c*x = 0 with c # 0 and x unassigned
\* returns Skip and leaves x unassigned (with the bound equal to the modulus
\* when x is boolean), unless x is not boolean, is recorded as its own
\* inverse and has the bound 0; then the call returns Resolved with x = 0.
BooleanConstraintForcedOnlyAtZero ==
    [][(last'.op = "solve" /\ BooleanConstraint(last'.gate)
          /\ last'.gate.mul_terms[1][2] \notin DOMAIN initial_witness) =>
         LET x == last'.gate.mul_terms[1][2]
         IN IF SelfInverseZero(Store, x)
              THEN /\ last'.result = Resolved
                   /\ initial_witness' = Insert(initial_witness, x, 0)
              ELSE SkippedUnassigned(last')]_vars

\* 2*x*x - 2*x = 0 has been skipped with x unassigned and a bound of the
\* modulus, next to a bound of 2 recorded for another witness.
BooleanConstraintSkipped ==
    /\ last.op = "solve"
    /\ BooleanConstraint(last.gate)
    /\ last.gate.mul_terms[1][1] = 2
    /\ last.result = Skip
    /\ last.gate.mul_terms[1][2] \notin DOMAIN initial_witness
    /\ is_binary(Store, last.gate) = {Modulus}
    /\ \E z \in DOMAIN positive_witness : positive_witness[z] = 2

\* ------------------------------------------------------------------ the ABI
\* process_abi_with_input: the witness map of the inputs is built from the
\* parameters of the ABI, one parameter per step.
InitAbi ==
    /\ binary_witness = {}
    /\ invert_witness = EmptyMap
    /\ positive_witness = EmptyMap
    /\ seed = EmptyMap
    /\ initial_witness = EmptyMap
    /\ last = NoCall
    /\ calls = 0
    /\ gates = <<>>
    /\ pending = <<>>
    /\ kept = <<>>
    /\ unsupported = {}
    /\ progress = FALSE
    /\ passes = 0
    /\ steps = 0
    /\ status = "idle"
    /\ caller = "waiting"
    /\ abi \in Abis
    /\ return_witness_len = ReturnWitnessLen(abi)
    /\ index = 0
    /\ return_witness = {}
    /\ solved_witness = EmptyMap
    /\ abi_status = "running"

\* One iteration of the loop over abi.parameters.
ProcessParam ==
    /\ abi_status = "running"
    /\ abi # <<>>
    /\ LET param == Head(abi)
           st == [index |-> index, return_witness |-> return_witness,
                  solved_witness |-> solved_witness, status |-> "running"]
       IN IF param.value = {}
            THEN /\ abi_status' = "panic_not_found"
                 /\ UNCHANGED <<index, return_witness, solved_witness>>
          ELSE IF ~param.matches
            THEN /\ abi_status' = "error"
                 /\ UNCHANGED <<index, return_witness, solved_witness>>
          ELSE LET r == input_value_into_witness(Unwrap(param.value), st, param.name,
                                                 return_witness_len)
               IN /\ abi_status' = r.status
                  /\ solved_witness' = r.solved_witness
                  /\ index' = IF r.status = "running" THEN r.index ELSE index
                  /\ return_witness' = IF r.status = "running" THEN r.return_witness
                                       ELSE return_witness
    /\ abi' = Tail(abi)
    /\ UNCHANGED <<solver_vars, seed, last, calls, gates, pending, kept, unsupported,
                   progress, passes, steps, status, caller, return_witness_len>>

\* Every parameter has been converted: Ok((solved_witness, return_witness)).
ProcessDone ==
    /\ abi_status = "running"
    /\ abi = <<>>
    /\ abi_status' = "ok"
    /\ UNCHANGED <<solver_vars, seed, last, calls, gates, pending, kept, unsupported,
                   progress, passes, steps, status, caller, abi, return_witness_len,
                   index, return_witness, solved_witness>>

NextAbi == ProcessParam \/ ProcessDone

SpecAbi == InitAbi /\ [][NextAbi]_vars

\* The elements of an input value in the order of its fields and elements.
RECURSIVE Flatten(_)
RECURSIVE FlattenFields(_, _)
FlattenFields(object, i) ==
    IF i > Len(object) THEN <<>>
    ELSE Flatten(object[i]) \o FlattenFields(object, i + 1)
Flatten(value) ==
    IF value.kind = "Field" THEN <<value.element>>
    ELSE IF value.kind = "Vec" THEN value.arr
    ELSE IF value.kind = "Struct" THEN FlattenFields(value.object, 1)
    ELSE <<>>

\* ------------------------------------------------------------------ C16
\* C16: converting a parameter writes the elements of its value, in order,
\* at the witnesses that follow the ones already written, the first of all
\* at witness 1; witness 0 is never written, no witness is written twice, and
\* the witnesses written are consecutive.
InitialWitnessIndexing ==
    [][/\ abi_status' # "panic_old_value"
       /\ 0 \notin DOMAIN solved_witness'
       /\ DOMAIN solved_witness' = 1 .. Cardinality(DOMAIN solved_witness')
       /\ \A w \in DOMAIN solved_witness :
             w \in DOMAIN solved_witness' /\ solved_witness'[w] = solved_witness[w]
       /\ (abi # <<>> /\ abi_status' = "running")
             => LET elements == Flatten(Unwrap(Head(abi).value))
                    first == Cardinality(DOMAIN solved_witness)
                IN /\ DOMAIN solved_witness' = 1 .. (first + Len(elements))
                   /\ \A i \in DOMAIN elements :
                         solved_witness'[first + i] = elements[i]]_vars

\* Two parameters, the second a struct with a struct in it, then the return
\* value left for the solver: five witnesses written, the sixth reserved.
StructAfterFieldConverted ==
    /\ abi_status = "ok"
    /\ DOMAIN solved_witness = 1 .. 5
    /\ solved_witness[1] = 2
    /\ solved_witness[2] = 2 /\ solved_witness[3] = 1
    /\ solved_witness[4] = 1 /\ solved_witness[5] = 2
    /\ return_witness = {6}

====
